---- MODULE Spec2Model ----
(***************************************************************************)
(* Model of the PumpTradingBot runners.                                    *)
(*                                                                         *)
(*   paper_trade.py  PaperAccount (open_short, average_short,              *)
(*                   check_tp_liquidation) and the paper main loop         *)
(*   main.py         the live main loop over averaging_state               *)
(*   binance_client.py  the exchange calls the live loop makes             *)
(*                                                                         *)
(* Every price, quantity and balance of the program is a Python float      *)
(* (IEEE-754 binary64).  Threshold comparisons such as                     *)
(* current_price >= avg_price * (1 + 1 / LEVERAGE) are decided by the      *)
(* rounding of each operation, so the model carries binary64 values and    *)
(* rounds every operation to nearest, ties to even, as the hardware does.  *)
(* A float is [sg, mt, ex] standing for sg * mt * 2^ex, with mt an odd     *)
(* natural number below 2^53 kept as little-endian limbs of LimbBits bits  *)
(* (TLC integers are 32 bits wide), or zero.  Overflow, subnormals, NaN    *)
(* and signed zero do not occur for the magnitudes used here.              *)
(***************************************************************************)
EXTENDS Integers, Sequences, FiniteSets, TLC

(***************************************************************************)
(* Natural numbers of arbitrary size: little-endian sequences of limbs.    *)
(***************************************************************************)
LimbBits == 14
LimbBase == 2 ^ LimbBits
MantBits == 53

Max2(a, b) == IF a >= b THEN a ELSE b
Min2(a, b) == IF a <= b THEN a ELSE b

RECURSIVE BNorm(_)
BNorm(a) ==
    IF a = <<>> THEN a
    ELSE IF a[Len(a)] = 0 THEN BNorm(SubSeq(a, 1, Len(a) - 1))
    ELSE a

RECURSIVE BCarry(_, _)
BCarry(cols, c) ==
    IF cols = <<>>
    THEN IF c = 0 THEN <<>> ELSE <<c % LimbBase>> \o BCarry(<<>>, c \div LimbBase)
    ELSE LET t == cols[1] + c
         IN  <<t % LimbBase>> \o BCarry(Tail(cols), t \div LimbBase)

BLimb(a, i) == IF i >= 1 /\ i <= Len(a) THEN a[i] ELSE 0

RECURSIVE BFromNat(_)
BFromNat(n) == IF n = 0 THEN <<>> ELSE <<n % LimbBase>> \o BFromNat(n \div LimbBase)

BAdd(a, b) ==
    BCarry([i \in 1..Max2(Len(a), Len(b)) |-> BLimb(a, i) + BLimb(b, i)], 0)

\* a - b for a >= b
BSub(a, b) ==
    BNorm(BCarry([i \in 1..Len(a) |-> a[i] - BLimb(b, i)], 0))

BCmp(a, b) ==
    IF Len(a) # Len(b) THEN (IF Len(a) < Len(b) THEN -1 ELSE 1)
    ELSE LET diff == {i \in 1..Len(a) : a[i] # b[i]}
         IN  IF diff = {} THEN 0
             ELSE LET top == CHOOSE i \in diff : \A j \in diff : j <= i
                  IN  IF a[top] < b[top] THEN -1 ELSE 1

RECURSIVE BColumn(_, _, _, _)
BColumn(a, b, k, i) ==
    IF i > Len(a) THEN 0
    ELSE BLimb(a, i) * BLimb(b, k + 1 - i) + BColumn(a, b, k, i + 1)

BMul(a, b) ==
    IF a = <<>> \/ b = <<>> THEN <<>>
    ELSE BNorm(BCarry([k \in 1..(Len(a) + Len(b) - 1) |-> BColumn(a, b, k, 1)], 0))

\* a * 2^k
BShl(a, k) ==
    IF a = <<>> \/ k = 0 THEN a
    ELSE LET q == k \div LimbBits
             r == k % LimbBits
         IN  [i \in 1..q |-> 0] \o BCarry([i \in 1..Len(a) |-> a[i] * 2 ^ r], 0)

\* floor(a / 2^k)
BShr(a, k) ==
    LET q == k \div LimbBits
        r == k % LimbBits
    IN  IF q >= Len(a) THEN <<>>
        ELSE BNorm([i \in 1..(Len(a) - q) |->
                      (a[i + q] \div 2 ^ r)
                      + (BLimb(a, i + q + 1) % 2 ^ r) * 2 ^ (LimbBits - r)])

\* the low k bits of a are all zero
BLowZero(a, k) ==
    LET q == k \div LimbBits
        r == k % LimbBits
    IN  /\ \A i \in 1..Min2(q, Len(a)) : a[i] = 0
        /\ BLimb(a, q + 1) % 2 ^ r = 0

\* bit i of a, bit 0 the lowest
BBit(a, i) ==
    IF i < 0 THEN 0
    ELSE (BLimb(a, i \div LimbBits + 1) \div 2 ^ (i % LimbBits)) % 2

BBitLen(a) ==
    IF a = <<>> THEN 0
    ELSE LET top == a[Len(a)]
         IN  LimbBits * (Len(a) - 1)
             + (CHOOSE k \in 1..LimbBits : top < 2 ^ k /\ top >= 2 ^ (k - 1))

\* number of trailing zero bits of a # 0
BTrail(a) ==
    LET j == CHOOSE i \in 1..Len(a) : a[i] # 0 /\ \A h \in 1..(i - 1) : a[h] = 0
    IN  LimbBits * (j - 1)
        + (CHOOSE k \in 0..(LimbBits - 1) : a[j] % 2 ^ k = 0 /\ a[j] % 2 ^ (k + 1) # 0)

BOdd(a) == BLimb(a, 1) % 2 = 1

(***************************************************************************)
(* binary64 values.                                                        *)
(***************************************************************************)
FZero == [sg |-> 0, mt |-> <<>>, ex |-> 0]

\* canonical form of sg * m * 2^e for m < 2^53: the mantissa made odd by
\* taking its tz trailing zero bits into the exponent
FShifted(s, m, e, tz) == [sg |-> s, mt |-> BShr(m, tz), ex |-> e + tz]
FCanon(s, m, e) ==
    IF m = <<>> \/ s = 0 THEN FZero ELSE FShifted(s, m, e, BTrail(m))

\* sg * m * 2^e (plus, with sticky, a nonzero amount below the last bit of
\* m) rounded to 53 significant bits, nearest, ties to even: q is m without
\* its low sh bits, half the highest of these bits, rest whether anything
\* nonzero lies below it
FRoundUp(s, q, e, half, rest) ==
    FCanon(s, IF half /\ (rest \/ BOdd(q)) THEN BAdd(q, <<1>>) ELSE q, e)
FRoundAt(s, m, e, sticky, sh) ==
    FRoundUp(s, BShr(m, sh), e + sh, BBit(m, sh - 1) = 1,
             sticky \/ ~BLowZero(m, sh - 1))
FRoundLen(s, m, e, sticky, len) ==
    IF len <= MantBits THEN FCanon(s, m, e)
    ELSE FRoundAt(s, m, e, sticky, len - MantBits)
FRound(s, m, e, sticky) == FRoundLen(s, m, e, sticky, BBitLen(m))

\* the float of a Python int literal or of an exactly representable count
FInt(n) ==
    IF n = 0 THEN FZero
    ELSE FCanon(IF n > 0 THEN 1 ELSE -1, BFromNat(IF n > 0 THEN n ELSE -n), 0)

FNeg(x) == [x EXCEPT !.sg = -x.sg]

\* the sign of |x| - |y| for nonzero x, y
FCmpMag(x, y) ==
    LET e == Min2(x.ex, y.ex)
    IN  BCmp(BShl(x.mt, x.ex - e), BShl(y.mt, y.ex - e))

\* the sign of x - y
FCmp(x, y) ==
    IF x.sg # y.sg THEN (IF x.sg < y.sg THEN -1 ELSE 1)
    ELSE IF x.sg = 0 THEN 0
    ELSE x.sg * FCmpMag(x, y)

FLe(x, y) == FCmp(x, y) <= 0
FLt(x, y) == FCmp(x, y) < 0
FGe(x, y) == FCmp(x, y) >= 0
FGt(x, y) == FCmp(x, y) > 0

\* x + y: the mantissas mx, my brought to the common exponent e, c the sign
\* of mx - my
FAddCmp(sx, mx, sy, my, e, c) ==
    IF c = 0 THEN FZero
    ELSE FRound(IF c > 0 THEN sx ELSE sy,
                IF c > 0 THEN BSub(mx, my) ELSE BSub(my, mx), e, FALSE)
FAddMag(sx, mx, sy, my, e) ==
    IF sx = sy THEN FRound(sx, BAdd(mx, my), e, FALSE)
    ELSE FAddCmp(sx, mx, sy, my, e, BCmp(mx, my))
FAddAt(x, y, e) ==
    FAddMag(x.sg, BShl(x.mt, x.ex - e), y.sg, BShl(y.mt, y.ex - e), e)
FAdd(x, y) ==
    IF x.sg = 0 THEN y
    ELSE IF y.sg = 0 THEN x
    ELSE FAddAt(x, y, Min2(x.ex, y.ex))

\* x - y
FSub(x, y) == FAdd(x, FNeg(y))

\* x * y
FMul(x, y) ==
    IF x.sg = 0 \/ y.sg = 0 THEN FZero
    ELSE FRound(x.sg * y.sg, BMul(x.mt, y.mt), x.ex + y.ex, FALSE)

QuotLimbs == 4

\* one digit of the long division of r by d in base LimbBase, for r < d and
\* d with its top limb >= LimbBase / 2: the trial digit qhat from the
\* leading limbs of t = r * LimbBase is lowered until p = qhat * d <= t
RECURSIVE BDivOver(_, _, _, _)
BDivOver(t, d, qhat, p) ==
    IF BCmp(p, t) <= 0 THEN [digit |-> qhat, rem |-> BSub(t, p)]
    ELSE BDivOver(t, d, qhat - 1, BSub(p, d))
BDivFix(t, d, qhat) == BDivOver(t, d, qhat, BMul(d, BFromNat(qhat)))
BDivTrial(t, d, n) ==
    BDivFix(t, d, Min2(LimbBase - 1,
                       (BLimb(t, n + 1) * LimbBase + BLimb(t, n)) \div d[n]))
BDivDigit(r, d) == BDivTrial(IF r = <<>> THEN <<>> ELSE <<0>> \o r, d, Len(d))

\* floor(r * LimbBase^n / d) as limbs below q, and the last remainder
RECURSIVE BDivDigits(_, _, _, _)
RECURSIVE BDivStep(_, _, _, _)
BDivDigits(r, d, q, n) ==
    IF n = 0 THEN [quot |-> BNorm(q), rem |-> r]
    ELSE BDivStep(BDivDigit(r, d), d, q, n)
BDivStep(s, d, q, n) == BDivDigits(s.rem, d, <<s.digit>> \o q, n - 1)

\* x / y for y # 0: ln, ld the bit lengths of the mantissas; the divisor
\* is shifted to l1 bits, a whole number of limbs and more than ln, and
\* the dividend to l1 - 1 bits
FDivQuot(s, dv, e) == FRound(s, dv.quot, e, dv.rem # <<>>)
FDivAt(x, y, ln, ld, l1) ==
    FDivQuot(x.sg * y.sg,
             BDivDigits(BShl(x.mt, l1 - 1 - ln), BShl(y.mt, l1 - ld), <<>>,
                        QuotLimbs),
             x.ex - y.ex + (l1 - ld) - (l1 - 1 - ln) - LimbBits * QuotLimbs)
FDivAlign(ln, l0) ==
    IF ln >= l0 THEN l0 + LimbBits * ((ln - l0) \div LimbBits + 1) ELSE l0
FDivLen(x, y, ln, ld) ==
    FDivAt(x, y, ln, ld,
           FDivAlign(ln, LimbBits * ((ld + LimbBits - 1) \div LimbBits)))
FDiv(x, y) ==
    IF x.sg = 0 THEN FZero
    ELSE IF y.mt = <<1>> THEN FCanon(x.sg * y.sg, x.mt, x.ex - y.ex)
    ELSE FDivLen(x, y, BBitLen(x.mt), BBitLen(y.mt))

\* Python round(x, ndigits) for ndigits >= 0: the decimal with ndigits
\* digits nearest to the exact value of x (ties to even), then the float
\* nearest to that decimal.  p is |x| * 10^ndigits * 2^sh, q its integer
\* part
PyRoundDec(s, q, half, rest, ndigits) ==
    FDiv(FRound(s, IF half /\ (rest \/ BOdd(q)) THEN BAdd(q, <<1>>) ELSE q,
                0, FALSE),
         FInt(10 ^ ndigits))
PyRoundScaled(s, p, sh, ndigits) ==
    PyRoundDec(s, IF sh <= 0 THEN BShl(p, -sh) ELSE BShr(p, sh),
               sh > 0 /\ BBit(p, sh - 1) = 1,
               sh > 1 /\ ~BLowZero(p, sh - 1), ndigits)
PyRound(x, ndigits) ==
    IF x.sg = 0 THEN FZero
    ELSE PyRoundScaled(x.sg, BMul(x.mt, BFromNat(10 ^ ndigits)), -x.ex, ndigits)


(***************************************************************************)
(* Exact arithmetic on the values floats stand for (no rounding): used     *)
(* only to state what a claim says about the real-number quantities.       *)
(* A value is [sg, mt, ex] with mt any natural number.                     *)
(***************************************************************************)
XMul(x, y) ==
    IF x.sg = 0 \/ y.sg = 0 THEN FZero
    ELSE [sg |-> x.sg * y.sg, mt |-> BMul(x.mt, y.mt), ex |-> x.ex + y.ex]

XAdd(x, y) ==
    IF x.sg = 0 THEN y
    ELSE IF y.sg = 0 THEN x
    ELSE LET e  == Min2(x.ex, y.ex)
             mx == BShl(x.mt, x.ex - e)
             my == BShl(y.mt, y.ex - e)
             c  == BCmp(mx, my)
         IN  IF x.sg = y.sg THEN [sg |-> x.sg, mt |-> BAdd(mx, my), ex |-> e]
             ELSE IF c = 0 THEN FZero
             ELSE IF c > 0 THEN [sg |-> x.sg, mt |-> BSub(mx, my), ex |-> e]
             ELSE [sg |-> y.sg, mt |-> BSub(my, mx), ex |-> e]

XSub(x, y) == XAdd(x, FNeg(y))
XAbs(x) == [x EXCEPT !.sg = IF x.sg = 0 THEN 0 ELSE 1]
XEq(x, y) == FCmp(x, y) = 0

\* |x - y| <= 2^(-40) * |y|: equal up to the rounding of a few operations
XNear(x, y) ==
    LET d == XAbs(XSub(x, y))
        b == XAbs(y)
    IN  FLe(d, [b EXCEPT !.ex = b.ex - 40])

(***************************************************************************)
(* Configuration of the paper runner (paper_trade.py, lines 17-34).        *)
(***************************************************************************)
INITIAL_BALANCE == 10
LEVERAGE == 10
\* the literal 0.05: the float nearest to 5/100
POSITION_SIZE == FDiv(FInt(5), FInt(100))
MAX_OPEN_TRADES == 3
USE_AVERAGING == TRUE
AVG_LEVELS == 2
AVG_DROP_PERCENT == FInt(5)
AVG_MULTIPLIER == FInt(1)
TP_PERCENT == FInt(3)
PUMP_PERCENT == 8
TIMEFRAMES == <<"1m", "3m", "5m", "15m">>
MIN_OI_GROWTH == FDiv(FInt(5), FInt(100))

(***************************************************************************)
(* State.                                                                  *)
(*   balance, positions   PaperAccount.balance, PaperAccount.positions:    *)
(*                        the dict as the sequence of its items in         *)
(*                        insertion order, which list(positions.keys())    *)
(*                        iterates                                         *)
(*   pc, todo, tick       the paper main loop: its place, the symbols the  *)
(*                        running for-loop still has to visit, the number  *)
(*                        of completed cycles                              *)
(* PaperAccount.log is only appended to and printed; it is left out.       *)
(* History variables (not program state, never read by an action's guard): *)
(*   fills       per symbol, the (price, qty) of every open_short and      *)
(*               average_short that changed the current position           *)
(*   last        the last PaperAccount call or loop step and what it read  *)
(*   tick_start  positions and balance as they were at the top of the      *)
(*               running cycle                                             *)
(*   ncalls      the number of PaperAccount calls made by the API driver   *)
(*   calls       the exchange calls the live loop made in the running      *)
(*               scan, each with its arguments and its result              *)
(* The live main loop (main.py) has                                        *)
(*   averaging_state   the module-level dict symbol -> {entry_price,       *)
(*                     total_qty, level}; NoState (level 0) stands for a   *)
(*                     symbol with no entry, as the code stores entries    *)
(*                     with level >= 1 only                                *)
(*   balance, open_pos the locals read at the top of every scan            *)
(*   REAL_ACCOUNT      the switch imported from config.py, a module that   *)
(*                     is not part of the sources: either value is         *)
(*                     possible                                            *)
(*   use_averaging     USE_AVERAGING as config.py sets it, which main.py   *)
(*                     imports and reads in its banner only (line 12)      *)
(*   scan_start        averaging_state as the running scan found it        *)
(* and shares pc, todo and tick with the paper loop.  The other names it   *)
(* imports from config.py (LEVERAGE, POSITION_SIZE, ...) are taken with    *)
(* the values paper_trade.py embeds "like config.py" (its line 16).        *)
(***************************************************************************)
VARIABLES balance, positions, pc, todo, tick, fills, last, tick_start, ncalls,
          averaging_state, open_pos, REAL_ACCOUNT, calls, scan_start,
          use_averaging

paperVars == <<positions, fills, tick_start, ncalls>>
liveVars == <<averaging_state, open_pos, REAL_ACCOUNT, calls, scan_start,
              use_averaging>>
vars == <<balance, positions, pc, todo, tick, fills, last, tick_start, ncalls,
          averaging_state, open_pos, REAL_ACCOUNT, calls, scan_start,
          use_averaging>>

symbols == <<"AUSDT", "BUSDT", "CUSDT", "DUSDT">>
Symbols == {symbols[i] : i \in 1..Len(symbols)}

(***************************************************************************)
(* PaperAccount (paper_trade.py, lines 37-90).                             *)
(***************************************************************************)
HasPos(ps, symbol) == \E i \in 1..Len(ps) : ps[i].symbol = symbol
PosIdx(ps, symbol) == CHOOSE i \in 1..Len(ps) : ps[i].symbol = symbol
PosOf(ps, symbol) == ps[PosIdx(ps, symbol)]
DelPos(ps, symbol) == SelectSeq(ps, LAMBDA p : p.symbol # symbol)
Keys(ps) == [i \in 1..Len(ps) |-> ps[i].symbol]

open_short(ps, symbol, qty, entry_price) ==
    IF HasPos(ps, symbol) THEN ps
    ELSE Append(ps, [symbol      |-> symbol,
                     entry_price |-> entry_price,
                     avg_price   |-> entry_price,
                     total_qty   |-> qty,
                     level       |-> 1])

\* average_short gets past its guard
average_applies(ps, symbol) ==
    HasPos(ps, symbol) /\ ~(PosOf(ps, symbol).level >= AVG_LEVELS)

\* the division by new_total_qty raises ZeroDivisionError
average_raises(ps, symbol, new_qty) ==
    /\ average_applies(ps, symbol)
    /\ FAdd(PosOf(ps, symbol).total_qty, new_qty) = FZero

\* average_short taking the mean of the two prices for the new avg_price
average_short_mean(ps, symbol, new_qty, current_price) ==
    IF ~average_applies(ps, symbol) THEN ps
    ELSE LET pos == PosOf(ps, symbol)
         IN  [ps EXCEPT ![PosIdx(ps, symbol)] =
                 [@ EXCEPT !.avg_price = FDiv(FAdd(pos.avg_price, current_price),
                                              FInt(2)),
                           !.total_qty = FAdd(pos.total_qty, new_qty),
                           !.level     = @ + 1]]

\* average_short counting two levels for one fill
average_short_two_levels(ps, symbol, new_qty, current_price) ==
    IF ~average_applies(ps, symbol) THEN ps
    ELSE LET pos           == PosOf(ps, symbol)
             new_total_qty == FAdd(pos.total_qty, new_qty)
         IN  [ps EXCEPT ![PosIdx(ps, symbol)] =
                 [@ EXCEPT !.avg_price =
                               FDiv(FAdd(FMul(pos.avg_price, pos.total_qty),
                                         FMul(current_price, new_qty)),
                                    new_total_qty),
                           !.total_qty = new_total_qty,
                           !.level     = @ + 2]]

\* for a call that does not raise
average_short(ps, symbol, new_qty, current_price) ==
    IF ~average_applies(ps, symbol) THEN ps
    ELSE LET pos           == PosOf(ps, symbol)
             new_total_qty == FAdd(pos.total_qty, new_qty)
             new_avg_price ==
                 FDiv(FAdd(FMul(pos.avg_price, pos.total_qty),
                           FMul(current_price, new_qty)),
                      new_total_qty)
         IN  [ps EXCEPT ![PosIdx(ps, symbol)] =
                 [@ EXCEPT !.avg_price = new_avg_price,
                           !.total_qty = new_total_qty,
                           !.level     = @ + 1]]

tp_price(pos) == FMul(pos.avg_price, FSub(FInt(1), FDiv(TP_PERCENT, FInt(100))))
liq_margin == FDiv(FInt(1), FInt(LEVERAGE))
liq_price(pos) == FMul(pos.avg_price, FAdd(FInt(1), liq_margin))

\* check_tp_liquidation closing only strictly below the take-profit price
check_tp_liquidation_strict(bal, ps, symbol, current_price) ==
    IF ~HasPos(ps, symbol) THEN [balance |-> bal, positions |-> ps, logged |-> <<>>]
    ELSE LET pos == PosOf(ps, symbol)
         IN  IF FLt(current_price, tp_price(pos))
             THEN [balance |-> FAdd(bal, FMul(pos.total_qty,
                                              FSub(pos.avg_price, current_price))),
                   positions |-> DelPos(ps, symbol), logged |-> <<"TP CLOSE">>]
             ELSE IF FGe(current_price, liq_price(pos))
             THEN [balance |-> FAdd(bal, FMul(FMul(FNeg(pos.total_qty),
                                                   pos.avg_price), liq_margin)),
                   positions |-> DelPos(ps, symbol), logged |-> <<"LIQUIDATION">>]
             ELSE [balance |-> bal, positions |-> ps, logged |-> <<>>]

\* check_tp_liquidation crediting the unrealised result of a position it
\* leaves open
check_tp_liquidation_marks(bal, ps, symbol, current_price) ==
    IF ~HasPos(ps, symbol) THEN [balance |-> bal, positions |-> ps, logged |-> <<>>]
    ELSE LET pos == PosOf(ps, symbol)
         IN  IF FLe(current_price, tp_price(pos))
             THEN [balance |-> FAdd(bal, FMul(pos.total_qty,
                                              FSub(pos.avg_price, current_price))),
                   positions |-> DelPos(ps, symbol), logged |-> <<"TP CLOSE">>]
             ELSE IF FGe(current_price, liq_price(pos))
             THEN [balance |-> FAdd(bal, FMul(FMul(FNeg(pos.total_qty),
                                                   pos.avg_price), liq_margin)),
                   positions |-> DelPos(ps, symbol), logged |-> <<"LIQUIDATION">>]
             ELSE [balance |-> FAdd(bal, FMul(pos.total_qty,
                                              FSub(pos.avg_price, current_price))),
                   positions |-> ps, logged |-> <<>>]

\* the account after check_tp_liquidation, and the kinds of the entries it
\* appended to the log
check_tp_liquidation(bal, ps, symbol, current_price) ==
    IF ~HasPos(ps, symbol) THEN [balance |-> bal, positions |-> ps, logged |-> <<>>]
    ELSE LET pos == PosOf(ps, symbol)
         IN  IF FLe(current_price, tp_price(pos))
             THEN LET pnl == FMul(pos.total_qty, FSub(pos.avg_price, current_price))
                  IN  [balance |-> FAdd(bal, pnl), positions |-> DelPos(ps, symbol),
                       logged |-> <<"TP CLOSE">>]
             ELSE IF FGe(current_price, liq_price(pos))
             THEN LET pnl == FMul(FMul(FNeg(pos.total_qty), pos.avg_price), liq_margin)
                  IN  [balance |-> FAdd(bal, pnl), positions |-> DelPos(ps, symbol),
                       logged |-> <<"LIQUIDATION">>]
             ELSE [balance |-> bal, positions |-> ps, logged |-> <<>>]

\* the fills of the current position of symbol after a step from ps to ps2
\* in which (price, qty) was submitted for it
FillsAfter(f, ps, ps2, symbol, price, qty) ==
    IF ~HasPos(ps2, symbol) THEN [f EXCEPT ![symbol] = <<>>]
    ELSE IF ~HasPos(ps, symbol)
    THEN [f EXCEPT ![symbol] = <<[price |-> price, qty |-> qty]>>]
    ELSE IF PosOf(ps2, symbol) # PosOf(ps, symbol)
    THEN [f EXCEPT ![symbol] = Append(@, [price |-> price, qty |-> qty])]
    ELSE f

(***************************************************************************)
(* PaperAccount driven through its three methods with arguments from small *)
(* menus: the specification the claims about one method are checked under. *)
(***************************************************************************)
MaxCalls == 3

\* the next float above an integer n < 2^7 and the next below
Above(n) == FAdd(FInt(n), [sg |-> 1, mt |-> <<1>>, ex |-> -46])
Below(n) == FSub(FInt(n), [sg |-> 1, mt |-> <<1>>, ex |-> -47])

AcctSymbols == {symbols[1], symbols[2]}
AcctQtys == {FInt(0), FInt(5), FInt(10)}
OpenPrices == {FInt(100)}
AvgPrices == {FInt(105), FInt(110)}
CheckPrices == {FInt(97), Above(97), FInt(100), Below(110), FInt(110), Above(110),
                FInt(120)}

\* a call or loop step: what it was given or read, the account and the
\* averaging state it found, the kinds of the log entries it made (for a
\* step of the live loop, the exchange calls it made)
NoState == [entry_price |-> FZero, total_qty |-> FZero, level |-> 0]
\* the candles and open-interest history a step of an entry scan went
\* through: kl[tf] for the timeframes up to the one that ended the search
\* (tf, 0 when none pumps), hist when the search found one, and whether
\* the step went on to the entry (signal)
NoData == [kl |-> <<>>, hist |-> <<>>, tf |-> 0, signal |-> FALSE]
NoCall == [op |-> "none", symbol |-> "", price |-> FZero, qty |-> FZero,
           balance |-> FZero, positions |-> <<>>, logged |-> <<>>,
           state |-> [s \in Symbols |-> NoState], data |-> NoData]
Call(op, symbol, price, qty, logged) ==
    [op |-> op, symbol |-> symbol, price |-> price, qty |-> qty,
     balance |-> balance, positions |-> positions, logged |-> logged,
     state |-> averaging_state, data |-> NoData]
LiveIdle ==
    /\ averaging_state = [s \in Symbols |-> NoState]
    /\ open_pos = <<>>
    /\ REAL_ACCOUNT = FALSE
    /\ calls = <<>>
    /\ scan_start = [s \in Symbols |-> NoState]
    /\ use_averaging = USE_AVERAGING

InitAcct ==
    /\ balance = FInt(INITIAL_BALANCE)
    /\ positions = <<>>
    /\ pc = "api"
    /\ todo = <<>>
    /\ tick = 0
    /\ fills = [s \in Symbols |-> <<>>]
    /\ last = NoCall
    /\ tick_start = [balance |-> FInt(INITIAL_BALANCE), positions |-> <<>>]
    /\ ncalls = 0
    /\ LiveIdle

AcctOpen(symbol, qty, price) ==
    /\ ncalls < MaxCalls
    /\ positions' = open_short(positions, symbol, qty, price)
    /\ fills' = FillsAfter(fills, positions, positions', symbol, price, qty)
    /\ last' = Call("open_short", symbol, price, qty,
                     IF HasPos(positions, symbol) THEN <<>> ELSE <<"ENTRY">>)
    /\ ncalls' = ncalls + 1
    /\ UNCHANGED <<balance, pc, todo, tick, tick_start>>
    /\ UNCHANGED liveVars

\* a call that raises leaves the account as it was
AcctAverage(symbol, new_qty, price) ==
    /\ ncalls < MaxCalls
    /\ positions' = IF average_raises(positions, symbol, new_qty) THEN positions
                    ELSE average_short(positions, symbol, new_qty, price)
    /\ fills' = FillsAfter(fills, positions, positions', symbol, price, new_qty)
    /\ last' = Call("average_short", symbol, price, new_qty,
                     IF positions' # positions THEN <<"AVG">> ELSE <<>>)
    /\ ncalls' = ncalls + 1
    /\ UNCHANGED <<balance, pc, todo, tick, tick_start>>
    /\ UNCHANGED liveVars

AcctCheck(symbol, price) ==
    /\ ncalls < MaxCalls
    /\ LET r == check_tp_liquidation(balance, positions, symbol, price)
       IN  /\ balance' = r.balance
           /\ positions' = r.positions
           /\ last' = Call("check_tp_liquidation", symbol, price, FZero, r.logged)
    /\ fills' = FillsAfter(fills, positions, positions', symbol, price, FZero)
    /\ ncalls' = ncalls + 1
    /\ UNCHANGED <<pc, todo, tick, tick_start>>
    /\ UNCHANGED liveVars

NextAcct ==
    \/ \E s \in AcctSymbols, q \in AcctQtys, p \in OpenPrices : AcctOpen(s, q, p)
    \/ \E s \in AcctSymbols, q \in AcctQtys, p \in AvgPrices : AcctAverage(s, q, p)
    \/ \E s \in AcctSymbols, p \in CheckPrices : AcctCheck(s, p)

SpecAcct == InitAcct /\ [][NextAcct]_vars

(***************************************************************************)
(* What the exchange answers (DataClient, paper_trade.py lines 93-123).    *)
(* Each read is answered from a small menu of answers for that symbol.     *)
(***************************************************************************)
\* closes of the candles of get_klines(symbol, tf, limit=3), per timeframe
Candles(a, b, c) == <<FInt(a), FInt(b), FInt(c)>>
TooFew == <<FInt(100), FInt(105)>>
\* every timeframe pumping 8 % (exactly the threshold)
KlPump == [tf \in 1..Len(TIMEFRAMES) |-> Candles(100, 105, 108)]
\* no pump on any timeframe
KlFlat == [tf \in 1..Len(TIMEFRAMES) |-> Candles(100, 101, 107)]
\* too few candles, then none pumping, then a pump on the third timeframe
KlLate == [tf \in 1..Len(TIMEFRAMES) |->
             IF tf = 1 THEN TooFew
             ELSE IF tf = 2 THEN Candles(100, 101, 107)
             ELSE Candles(50, 52, 54)]
\* fewer than 3 candles everywhere
KlShort == [tf \in 1..Len(TIMEFRAMES) |-> TooFew]

KlineMenu(symbol) ==
    IF symbol = symbols[1] THEN {KlPump, KlFlat, KlLate, KlShort}
    ELSE IF symbol = symbols[2] THEN {KlPump, KlFlat}
    ELSE {KlPump}

\* sumOpenInterest of futures_open_interest_hist(symbol, "5m", limit=2)
OiMenu(symbol) ==
    IF symbol = symbols[1]
    THEN {<<FInt(1000), FInt(1050)>>, <<FInt(1000), FInt(1040)>>, <<FInt(1000)>>}
    ELSE {<<FInt(1000), FInt(1100)>>}

\* futures_symbol_ticker price read by the entry scan
EntryPriceMenu(symbol) ==
    IF symbol = symbols[1] THEN {FZero, FInt(100)}
    ELSE IF symbol = symbols[4] THEN {FInt(1), FInt(100)}
    ELSE {FInt(100)}

\* futures_symbol_ticker price read by the monitoring pass
MonitorPriceMenu(symbol) ==
    IF symbol = symbols[1] THEN {FZero, FInt(97), FInt(100), FInt(105), FInt(120)}
    ELSE IF symbol = symbols[2] THEN {FInt(100), FInt(105)}
    ELSE {FInt(100)}

\* decimals of the LOT_SIZE stepSize in futures_exchange_info, for the
\* symbols that have one with stepSize < 1; 0 stands for stepSize >= 1
LotStepDecimals == [s \in {symbols[1], symbols[2], symbols[3]} |->
                      IF s = symbols[2] THEN 0 ELSE 3]
DefaultQtyPrecision == 3

get_qty_precision(symbol) ==
    IF symbol \in DOMAIN LotStepDecimals THEN LotStepDecimals[symbol]
    ELSE DefaultQtyPrecision

get_oi_growth(hist) ==
    IF Len(hist) < 2 THEN FZero
    ELSE LET prev == hist[Len(hist) - 1]
             curr == hist[Len(hist)]
         IN  IF FGt(prev, FZero) THEN FDiv(FSub(curr, prev), prev) ELSE FZero

(***************************************************************************)
(* The paper main loop (paper_trade.py, lines 135-201).                    *)
(***************************************************************************)
MaxTicks == 2

\* growth of one candle window (lines 152-154)
growth(kl) ==
    LET close_old == kl[1]
        close_now == kl[3]
    IN  IF FGt(close_old, FZero) THEN FDiv(FSub(close_now, close_old), close_old)
        ELSE FZero

\* the search with a strict comparison against PUMP_PERCENT / 100
RECURSIVE pump_tf_strict(_, _)
pump_tf_strict(kl, tf) ==
    IF tf > Len(TIMEFRAMES) THEN 0
    ELSE IF Len(kl[tf]) < 3 THEN pump_tf_strict(kl, tf + 1)
    ELSE IF FGt(growth(kl[tf]), FDiv(FInt(PUMP_PERCENT), FInt(100))) THEN tf
    ELSE pump_tf_strict(kl, tf + 1)

\* the search giving up at the first timeframe with fewer than 3 candles
RECURSIVE pump_tf_short_ends(_, _)
pump_tf_short_ends(kl, tf) ==
    IF tf > Len(TIMEFRAMES) THEN 0
    ELSE IF Len(kl[tf]) < 3 THEN 0
    ELSE IF FGe(growth(kl[tf]), FDiv(FInt(PUMP_PERCENT), FInt(100))) THEN tf
    ELSE pump_tf_short_ends(kl, tf + 1)

\* the for-loop over TIMEFRAMES from index tf on: the index of the first
\* timeframe with at least 3 candles and growth >= PUMP_PERCENT / 100, or 0
RECURSIVE pump_tf(_, _)
pump_tf(kl, tf) ==
    IF tf > Len(TIMEFRAMES) THEN 0
    ELSE IF Len(kl[tf]) < 3 THEN pump_tf(kl, tf + 1)
    ELSE IF FGe(growth(kl[tf]), FDiv(FInt(PUMP_PERCENT), FInt(100))) THEN tf
    ELSE pump_tf(kl, tf + 1)

pump_found(kl) == pump_tf(kl, 1) # 0

\* what the search of lines 147-167 fetched and decided: the loop breaks at
\* timeframe tf, and get_oi_growth is called only after a pump was found
ScanDataAt(kl, hist, tf) ==
    [kl     |-> SubSeq(kl, 1, IF tf = 0 THEN Len(TIMEFRAMES) ELSE tf),
     hist   |-> IF tf = 0 THEN <<>> ELSE hist,
     tf     |-> tf,
     signal |-> tf # 0 /\ ~FLt(get_oi_growth(hist), MIN_OI_GROWTH)]
ScanData(kl, hist) == ScanDataAt(kl, hist, pump_tf(kl, 1))

\* qty of an entry (lines 173-174)
entry_qty(bal, price, symbol) ==
    PyRound(FDiv(FMul(bal, POSITION_SIZE), price), get_qty_precision(symbol))

\* new_qty of an averaging fill (lines 190-191)
avg_qty(bal, price, symbol) ==
    PyRound(FDiv(FMul(FMul(bal, POSITION_SIZE), AVG_MULTIPLIER), price),
            get_qty_precision(symbol))

drop_pct(pos, price) ==
    FMul(FDiv(FSub(price, pos.avg_price), pos.avg_price), FInt(100))

\* the condition of line 189 without its price threshold
should_average_any(pos, price) ==
    /\ USE_AVERAGING
    /\ pos.level < AVG_LEVELS

\* the condition of line 189
should_average(pos, price) ==
    /\ USE_AVERAGING
    /\ pos.level < AVG_LEVELS
    /\ FGe(drop_pct(pos, price), AVG_DROP_PERCENT)

InitPaper ==
    /\ balance = FInt(INITIAL_BALANCE)
    /\ positions = <<>>
    /\ pc = "cycle"
    /\ todo = <<>>
    /\ tick = 0
    /\ fills = [s \in Symbols |-> <<>>]
    /\ last = NoCall
    /\ tick_start = [balance |-> FInt(INITIAL_BALANCE), positions |-> <<>>]
    /\ ncalls = 0
    /\ LiveIdle

\* top of the while loop: the entry scan is skipped at MAX_OPEN_TRADES
CycleStart ==
    /\ pc = "cycle"
    /\ tick < MaxTicks
    /\ tick_start' = [balance |-> balance, positions |-> positions]
    /\ IF Len(positions) >= MAX_OPEN_TRADES
       THEN pc' = "monitor" /\ todo' = Keys(positions)
       ELSE pc' = "scan" /\ todo' = symbols
    /\ last' = Call("cycle", "", FZero, FZero, <<>>)
    /\ UNCHANGED <<balance, positions, tick, fills, ncalls>>
    /\ UNCHANGED liveVars

\* one iteration of the entry scan (lines 143-176)
ScanStep ==
    /\ pc = "scan"
    /\ todo # <<>>
    /\ LET symbol == Head(todo)
       IN  \E kl \in KlineMenu(symbol), hist \in OiMenu(symbol),
              price \in EntryPriceMenu(symbol) :
               LET enters == /\ ~HasPos(positions, symbol)
                             /\ pump_found(kl)
                             /\ ~FLt(get_oi_growth(hist), MIN_OI_GROWTH)
                             /\ ~FLe(price, FZero)
                   qty    == entry_qty(balance, price, symbol)
               IN  /\ positions' = IF enters
                                   THEN open_short(positions, symbol, qty, price)
                                   ELSE positions
                   /\ fills' = FillsAfter(fills, positions, positions', symbol,
                                          price, qty)
                   /\ last' = [Call("scan", symbol, price,
                                    IF enters THEN qty ELSE FZero,
                                    IF enters THEN <<"ENTRY">> ELSE <<>>)
                                   EXCEPT !.data = IF HasPos(positions, symbol)
                                                   THEN NoData
                                                   ELSE ScanData(kl, hist)]
    /\ todo' = Tail(todo)
    /\ UNCHANGED <<balance, pc, tick, tick_start, ncalls>>
    /\ UNCHANGED liveVars

\* the scan is over (or was skipped): the monitoring pass starts over a
\* copy of the keys
ScanDone ==
    /\ pc = "scan"
    /\ todo = <<>>
    /\ pc' = "monitor"
    /\ todo' = Keys(positions)
    /\ UNCHANGED <<balance, positions, tick, fills, last, tick_start, ncalls>>
    /\ UNCHANGED liveVars

\* one iteration of the monitoring pass (lines 181-195); a ZeroDivisionError
\* in average_short ends the process
MonitorStep ==
    /\ pc = "monitor"
    /\ todo # <<>>
    /\ LET symbol == Head(todo)
       IN  \E price \in MonitorPriceMenu(symbol) :
               IF FLe(price, FZero)
               THEN /\ todo' = Tail(todo)
                    /\ last' = Call("monitor", symbol, price, FZero, <<"SKIP">>)
                    /\ UNCHANGED <<balance, positions, pc, fills>>
               ELSE LET pos     == PosOf(positions, symbol)
                        avg     == should_average(pos, price)
                        new_qty == avg_qty(balance, price, symbol)
                    IN  IF avg /\ average_raises(positions, symbol, new_qty)
                        THEN /\ pc' = "crashed"
                             /\ last' = Call("monitor", symbol, price, new_qty,
                                             <<"ZeroDivisionError">>)
                             /\ UNCHANGED <<balance, positions, todo, fills>>
                        ELSE LET ps1 == IF avg
                                        THEN average_short(positions, symbol,
                                                           new_qty, price)
                                        ELSE positions
                                 r   == check_tp_liquidation(balance, ps1, symbol,
                                                             price)
                             IN  /\ balance' = r.balance
                                 /\ positions' = r.positions
                                 /\ fills' = FillsAfter(
                                        FillsAfter(fills, positions, ps1, symbol,
                                                   price, new_qty),
                                        ps1, r.positions, symbol, price, FZero)
                                 /\ last' = Call("monitor", symbol, price,
                                                 IF avg THEN new_qty ELSE FZero,
                                                 (IF ps1 # positions THEN <<"AVG">>
                                                  ELSE <<>>) \o r.logged)
                                 /\ todo' = Tail(todo)
                                 /\ pc' = pc
    /\ UNCHANGED <<tick, tick_start, ncalls>>
    /\ UNCHANGED liveVars

\* the pass is over: the log tail is printed and the loop sleeps
MonitorDone ==
    /\ pc = "monitor"
    /\ todo = <<>>
    /\ pc' = "cycle"
    /\ tick' = tick + 1
    /\ last' = Call("sleep", "", FZero, FZero, <<>>)
    /\ UNCHANGED <<balance, positions, todo, fills, tick_start, ncalls>>
    /\ UNCHANGED liveVars

NextPaper == CycleStart \/ ScanStep \/ ScanDone \/ MonitorStep \/ MonitorDone

SpecPaper == InitPaper /\ [][NextPaper]_vars

(***************************************************************************)
(* What the exchange answers the live loop (BinanceFuturesClient,          *)
(* binance_client.py).                                                     *)
(***************************************************************************)
\* float(...) of a decimal string with three decimals, in thousandths
FMilli(n) == FDiv(FInt(n), FInt(1000))
FAbs(x) == [x EXCEPT !.sg = IF x.sg = 0 THEN 0 ELSE 1]

\* an entry of futures_position_information
ExchangePos(symbol, amt, entry) ==
    [symbol |-> symbol, positionAmt |-> amt, entryPrice |-> entry]

\* get_open_positions: the entries with positionAmt # 0, or [] on an error
OpenPosMenu ==
    { <<>>,
      <<ExchangePos(symbols[1], FMilli(-5), FInt(100))>>,
      <<ExchangePos(symbols[2], FInt(1), FInt(100)),
        ExchangePos(symbols[1], FMilli(-5), FInt(100))>>,
      <<ExchangePos(symbols[1], FMilli(-5), FInt(100)),
        ExchangePos(symbols[2], FInt(-1), FInt(100)),
        ExchangePos(symbols[3], FMilli(-5), FInt(100))>> }

\* get_balance_usdt: the wallet balance, or 0.0 on an error
LiveBalanceMenu == {FZero, FInt(INITIAL_BALANCE)}

\* get_current_price in the averaging pass and in the entry pass
LiveAvgPriceMenu == {FZero, FInt(100), FInt(105)}
LiveEntryPriceMenu == {FZero, FInt(100)}

LiveKlineMenu(symbol) ==
    IF symbol \in {symbols[1], symbols[2]} THEN {KlPump, KlFlat} ELSE {KlFlat}

\* decimals of the PRICE_FILTER tickSize, as LotStepDecimals
TickDecimals == [s \in {symbols[1]} |-> 1]
DefaultPricePrecision == 2

get_price_precision(symbol) ==
    IF symbol \in DOMAIN TickDecimals THEN TickDecimals[symbol]
    ELSE DefaultPricePrecision

\* open_short_market: no order is sent for a rounded quantity <= 0; a sent
\* order is accepted or raises, and the method returns the order or None
open_short_market(symbol, quantity, accepted) ==
    LET qty == PyRound(quantity, get_qty_precision(symbol))
    IN  [fn |-> "open_short_market", symbol |-> symbol, qty |-> qty,
         price |-> FZero, sent |-> ~FLe(qty, FZero),
         ok |-> ~FLe(qty, FZero) /\ accepted]

place_take_profit_market(symbol, quantity, stop_price, accepted) ==
    [fn |-> "place_take_profit_market", symbol |-> symbol,
     qty |-> PyRound(quantity, get_qty_precision(symbol)),
     price |-> PyRound(stop_price, get_price_precision(symbol)),
     sent |-> TRUE, ok |-> accepted]

\* an error of the cancellation is printed and changes nothing in the loop
cancel_all_open_orders(symbol) ==
    [fn |-> "cancel_all_open_orders", symbol |-> symbol, qty |-> FZero,
     price |-> FZero, sent |-> TRUE, ok |-> TRUE]

\* a step of the loop that made no call, or what it printed or raised
Note(kind) ==
    [fn |-> kind, symbol |-> "", qty |-> FZero, price |-> FZero,
     sent |-> FALSE, ok |-> TRUE]

set_leverage(symbol, accepted) ==
    [fn |-> "set_leverage", symbol |-> symbol, qty |-> FZero,
     price |-> FInt(LEVERAGE), sent |-> TRUE, ok |-> accepted]

(***************************************************************************)
(* The live main loop (main.py, lines 30-145).                             *)
(***************************************************************************)
IsShort(p) == FLt(p.positionAmt, FZero)

\* lines 50-56
restored_state(pos) ==
    [entry_price |-> pos.entryPrice, total_qty |-> FAbs(pos.positionAmt),
     level |-> 1]

\* line 64
live_drop_pct(state, current_price) ==
    FMul(FDiv(FSub(current_price, state.entry_price), state.entry_price),
         FInt(100))

\* line 66
live_should_average(state, current_price) ==
    /\ state.level < AVG_LEVELS
    /\ FGe(live_drop_pct(state, current_price), AVG_DROP_PERCENT)

\* lines 75-79, for a new_total_qty # 0
averaged_state(state, new_qty, current_price) ==
    LET new_total_qty == FAdd(state.total_qty, new_qty)
        new_avg_price ==
            FDiv(FAdd(FMul(state.entry_price, state.total_qty),
                      FMul(current_price, new_qty)),
                 new_total_qty)
    IN  [entry_price |-> new_avg_price, total_qty |-> new_total_qty,
         level |-> state.level + 1]

\* lines 131-135
entry_state(price, qty) == [entry_price |-> price, total_qty |-> qty, level |-> 1]

\* lines 83 and 138
live_tp_price(price) == FMul(price, FSub(FInt(1), FDiv(TP_PERCENT, FInt(100))))

\* line 90
in_position(ops, symbol) ==
    \E i \in 1..Len(ops) : ops[i].symbol = symbol /\ IsShort(ops[i])

\* the loop is entered after a positive balance was read (lines 20-25)
InitLive ==
    /\ balance = FInt(INITIAL_BALANCE)
    /\ positions = <<>>
    /\ pc = "top"
    /\ todo = <<>>
    /\ tick = 0
    /\ fills = [s \in Symbols |-> <<>>]
    /\ last = NoCall
    /\ tick_start = [balance |-> FInt(INITIAL_BALANCE), positions |-> <<>>]
    /\ ncalls = 0
    /\ averaging_state = [s \in Symbols |-> NoState]
    /\ open_pos = <<>>
    /\ REAL_ACCOUNT \in BOOLEAN
    /\ calls = <<>>
    /\ scan_start = [s \in Symbols |-> NoState]
    /\ use_averaging \in BOOLEAN

\* lines 31-39: the reads at the top of a scan; at MAX_OPEN_TRADES the scan
\* sleeps and continues with the next one
LiveTick ==
    /\ pc = "top"
    /\ tick < MaxTicks
    /\ \E bal \in LiveBalanceMenu, ops \in OpenPosMenu :
           /\ balance' = bal
           /\ open_pos' = ops
           /\ IF Len(ops) >= MAX_OPEN_TRADES
              THEN /\ pc' = "top"
                   /\ todo' = <<>>
                   /\ tick' = tick + 1
                   /\ last' = Call("live_tick", "", FZero, FZero,
                                   <<Note("Max positions")>>)
              ELSE /\ pc' = "averaging"
                   /\ todo' = ops
                   /\ tick' = tick
                   /\ last' = Call("live_tick", "", FZero, FZero, <<>>)
    /\ calls' = <<>>
    /\ scan_start' = averaging_state
    /\ UNCHANGED <<averaging_state, REAL_ACCOUNT, use_averaging>>
    /\ UNCHANGED paperVars

\* an iteration of the loop over open_pos that leaves averaging_state alone
AvgSkip(symbol, price, qty, why) ==
    /\ last' = Call("live_avg", symbol, price, qty, why)
    /\ todo' = Tail(todo)
    /\ UNCHANGED <<averaging_state, calls, pc>>

\* lines 72-84 with REAL_ACCOUNT: the order, then the update of the state
\* (a ZeroDivisionError at line 76 ends the process), then the new TP
LiveAvgOrder(symbol, state, current_price, new_qty, order, tp_accepted) ==
    IF FAdd(state.total_qty, new_qty) = FZero
    THEN /\ pc' = "crashed"
         /\ calls' = Append(calls, order)
         /\ last' = Call("live_avg", symbol, current_price, new_qty,
                         <<order, Note("ZeroDivisionError")>>)
         /\ UNCHANGED <<averaging_state, todo>>
    ELSE LET new  == averaged_state(state, new_qty, current_price)
             made == <<order, cancel_all_open_orders(symbol),
                       place_take_profit_market(symbol, new.total_qty,
                                                live_tp_price(new.entry_price),
                                                tp_accepted)>>
         IN  /\ averaging_state' = [averaging_state EXCEPT ![symbol] = new]
             /\ calls' = calls \o made
             /\ last' = Call("live_avg", symbol, current_price, new_qty, made)
             /\ todo' = Tail(todo)
             /\ pc' = pc

\* lines 69-86
LiveAvgFill(symbol, state, current_price, new_qty) ==
    IF ~REAL_ACCOUNT
    THEN AvgSkip(symbol, current_price, new_qty, <<Note("TEST")>>)
    ELSE \E accepted, tp_accepted \in BOOLEAN :
             LiveAvgOrder(symbol, state, current_price, new_qty,
                          open_short_market(symbol, new_qty, accepted),
                          tp_accepted)

\* lines 60-86 (a ZeroDivisionError at line 64 ends the process)
LiveAvgPrice(symbol, state, current_price) ==
    IF FLe(current_price, FZero)
    THEN AvgSkip(symbol, current_price, FZero, <<Note("SKIP")>>)
    ELSE IF state.entry_price = FZero
    THEN /\ pc' = "crashed"
         /\ last' = Call("live_avg", symbol, current_price, FZero,
                         <<Note("ZeroDivisionError")>>)
         /\ UNCHANGED <<averaging_state, calls, todo>>
    ELSE IF ~live_should_average(state, current_price)
    THEN AvgSkip(symbol, current_price, FZero, <<>>)
    ELSE LiveAvgFill(symbol, state, current_price,
                     avg_qty(balance, current_price, symbol))

\* lines 43-86
LiveAvg(pos) ==
    IF ~IsShort(pos) THEN AvgSkip(pos.symbol, FZero, FZero, <<Note("LONG")>>)
    ELSE IF averaging_state[pos.symbol] = NoState
    THEN /\ averaging_state' =
                [averaging_state EXCEPT ![pos.symbol] = restored_state(pos)]
         /\ last' = Call("live_avg", pos.symbol, FZero, FZero, <<Note("STATE")>>)
         /\ todo' = Tail(todo)
         /\ UNCHANGED <<calls, pc>>
    ELSE \E current_price \in LiveAvgPriceMenu :
             LiveAvgPrice(pos.symbol, averaging_state[pos.symbol], current_price)

\* one iteration of the loop over open_pos (lines 42-86)
LiveAvgStep ==
    /\ pc = "averaging"
    /\ todo # <<>>
    /\ LiveAvg(Head(todo))
    /\ UNCHANGED <<balance, open_pos, REAL_ACCOUNT, tick, scan_start,
                    use_averaging>>
    /\ UNCHANGED paperVars

\* the loop over open_pos is over: the loop over symbols starts
LiveAvgDone ==
    /\ pc = "averaging"
    /\ todo = <<>>
    /\ pc' = "entries"
    /\ todo' = symbols
    /\ UNCHANGED <<balance, tick, last>>
    /\ UNCHANGED liveVars
    /\ UNCHANGED paperVars

\* the record of an iteration of the loop over symbols
EntryCall(symbol, price, qty, logged, data) ==
    [Call("live_entry", symbol, price, qty, logged) EXCEPT !.data = data]

\* an iteration of the loop over symbols that leaves averaging_state alone,
\* after the calls in made
EntrySkip(symbol, price, qty, why, made, data) ==
    /\ last' = EntryCall(symbol, price, qty, why, data)
    /\ calls' = calls \o made
    /\ UNCHANGED averaging_state

\* lines 127-143
LiveEntryOrder(symbol, data, price, qty) ==
    IF ~REAL_ACCOUNT
    THEN EntrySkip(symbol, price, qty,
                   <<set_leverage(symbol, TRUE), Note("TEST")>>,
                   <<set_leverage(symbol, TRUE)>>, data)
    ELSE \E accepted, tp_accepted \in BOOLEAN :
             LET made == <<set_leverage(symbol, TRUE),
                           open_short_market(symbol, qty, accepted),
                           place_take_profit_market(symbol, qty,
                                                    live_tp_price(price),
                                                    tp_accepted)>>
             IN  /\ averaging_state' =
                        [averaging_state EXCEPT ![symbol] = entry_state(price, qty)]
                 /\ calls' = calls \o made
                 /\ last' = EntryCall(symbol, price, qty, made, data)

\* lines 115-143
LiveEntrySignal(symbol, data) ==
    IF ~data.signal THEN EntrySkip(symbol, FZero, FZero, <<>>, <<>>, data)
    ELSE \E lev_ok \in BOOLEAN :
             IF ~lev_ok
             THEN EntrySkip(symbol, FZero, FZero, <<set_leverage(symbol, FALSE)>>,
                            <<set_leverage(symbol, FALSE)>>, data)
             ELSE \E price \in LiveEntryPriceMenu :
                      IF FLe(price, FZero)
                      THEN EntrySkip(symbol, price, FZero,
                                     <<set_leverage(symbol, TRUE)>>,
                                     <<set_leverage(symbol, TRUE)>>, data)
                      ELSE LiveEntryOrder(symbol, data, price,
                                          entry_qty(balance, price, symbol))

\* lines 90-143
LiveEntry(symbol) ==
    IF in_position(open_pos, symbol)
    THEN EntrySkip(symbol, FZero, FZero, <<Note("IN POSITION")>>, <<>>, NoData)
    ELSE \E kl \in LiveKlineMenu(symbol), hist \in OiMenu(symbol) :
             LiveEntrySignal(symbol, ScanData(kl, hist))

\* one iteration of the loop over symbols (lines 89-143)
LiveEntryStep ==
    /\ pc = "entries"
    /\ todo # <<>>
    /\ LiveEntry(Head(todo))
    /\ todo' = Tail(todo)
    /\ UNCHANGED <<balance, open_pos, REAL_ACCOUNT, pc, tick, scan_start,
                    use_averaging>>
    /\ UNCHANGED paperVars

\* line 145
LiveEntryDone ==
    /\ pc = "entries"
    /\ todo = <<>>
    /\ pc' = "top"
    /\ tick' = tick + 1
    /\ last' = Call("live_sleep", "", FZero, FZero, <<>>)
    /\ UNCHANGED <<balance, todo>>
    /\ UNCHANGED liveVars
    /\ UNCHANGED paperVars

NextLive == LiveTick \/ LiveAvgStep \/ LiveAvgDone \/ LiveEntryStep \/ LiveEntryDone

SpecLive == InitLive /\ [][NextLive]_vars

\* either runner: the two loops share no control state
InitRunners == InitPaper \/ InitLive
NextRunners == NextPaper \/ NextLive
SpecRunners == InitRunners /\ [][NextRunners]_vars

(***************************************************************************)
(* Claims.                                                                 *)
(***************************************************************************)
RECURSIVE SumNotional(_)
SumNotional(f) ==
    IF f = <<>> THEN FZero
    ELSE XAdd(XMul(f[1].price, f[1].qty), SumNotional(Tail(f)))

RECURSIVE SumQty(_)
SumQty(f) == IF f = <<>> THEN FZero ELSE XAdd(f[1].qty, SumQty(Tail(f)))

ScenarioC == <<[price |-> FInt(100), qty |-> FInt(5)],
               [price |-> FInt(110), qty |-> FInt(5)]>>

\* the trigger conditions over the real numbers the floats stand for:
\* current_price <= avg_price * (1 - tp_pct / 100) and
\* current_price >= avg_price * (1 + 1 / leverage), cleared of fractions
TakeProfitCondition(pos, price) ==
    FLe(XMul(price, FInt(100)), XMul(pos.avg_price, XSub(FInt(100), TP_PERCENT)))
LiquidationCondition(pos, price) ==
    FGe(XMul(price, FInt(LEVERAGE)), XMul(pos.avg_price, FInt(LEVERAGE + 1)))
\* the balance is the one before the call plus total_qty * (avg_price -
\* price), up to float rounding
TakeProfitCredited(pos, price) ==
    XNear(balance,
          XAdd(last.balance, XMul(pos.total_qty, XSub(pos.avg_price, price))))
\* the balance is the one before the call minus total_qty * avg_price /
\* leverage, up to float rounding (both sides times leverage)
LiquidationCredited(pos) ==
    XNear(XMul(balance, FInt(LEVERAGE)),
          XSub(XMul(last.balance, FInt(LEVERAGE)),
               XMul(pos.total_qty, pos.avg_price)))

\* the last call was check_tp_liquidation on a symbol that had a position
Checked(s) ==
    /\ last.op = "check_tp_liquidation"
    /\ last.symbol = s
    /\ HasPos(last.positions, s)

\* the exchange calls of the last step of the live loop that were orders
\* to open or add to a short
OrdersOfLast ==
    IF last.op \in {"live_avg", "live_entry"}
    THEN SelectSeq(last.logged, LAMBDA c : c.fn = "open_short_market")
    ELSE <<>>

\* C1 (as stated): in the live loop an averaging or entry transition whose
\* order is not confirmed (open_short_market returns None: the order raised
\* or the rounded quantity is <= 0) leaves averaging_state as it was; after
\* a confirmed entry the symbol has a level-1 state at the entry price and
\* quantity, after a confirmed averaging order the state is the weighted
\* update with the level one higher.
C1_FailedOrderKeepsState ==
    \A i \in 1..Len(OrdersOfLast) :
        LET order == OrdersOfLast[i]
            old   == last.state[last.symbol]
            new   == averaging_state[last.symbol]
        IN  /\ ~order.ok => averaging_state = last.state
            /\ (order.ok /\ last.op = "live_entry") =>
                   new = [entry_price |-> last.price, total_qty |-> last.qty,
                          level |-> 1]
            /\ (order.ok /\ last.op = "live_avg") =>
                   /\ new.level = old.level + 1
                   /\ XNear(new.total_qty, XAdd(old.total_qty, last.qty))
                   /\ XNear(XMul(new.entry_price, new.total_qty),
                            XAdd(XMul(old.entry_price, old.total_qty),
                                 XMul(last.price, last.qty)))

\* C2 (as stated): the paper account never holds more than MAX_OPEN_TRADES
\* positions, never two for one symbol, and the scan makes no entry for a
\* symbol that has a position.
C2_MaxOpenTrades ==
    /\ Len(positions) <= MAX_OPEN_TRADES
    /\ \A i, j \in 1..Len(positions) :
           positions[i].symbol = positions[j].symbol => i = j
    /\ (last.op = "scan" /\ HasPos(last.positions, last.symbol)) =>
           positions = last.positions

\* C3: every position has 1 <= level <= AVG_LEVELS; no step lowers the
\* level of a position, and a position that was open when the cycle began
\* has at most one level more than it had then, one opened in the cycle at
\* most one more than the level 1 it is opened with.
C3_LevelBounds ==
    \A i \in 1..Len(positions) :
        LET pos == positions[i]
            s   == pos.symbol
        IN  /\ 1 <= pos.level
            /\ pos.level <= AVG_LEVELS
            /\ HasPos(last.positions, s) =>
                   pos.level >= PosOf(last.positions, s).level
            /\ IF HasPos(tick_start.positions, s)
               THEN /\ pos.level >= PosOf(tick_start.positions, s).level
                    /\ pos.level <= PosOf(tick_start.positions, s).level + 1
               ELSE pos.level <= 1 + 1

\* a position open at level 1 when the cycle began was averaged to level 2
\* by the monitoring pass
C3_Witness ==
    /\ last.op = "monitor"
    /\ last.logged = <<"AVG">>
    /\ HasPos(tick_start.positions, last.symbol)
    /\ PosOf(tick_start.positions, last.symbol).level = 1
    /\ HasPos(positions, last.symbol)
    /\ PosOf(positions, last.symbol).level = AVG_LEVELS

\* C4 (as stated): every position in the map has total_qty > 0, and an
\* entry whose rounded quantity is not positive creates no position.
C4_PositiveQty ==
    /\ \A i \in 1..Len(positions) : FGt(positions[i].total_qty, FZero)
    /\ (last.op = "scan" /\ last.logged = <<"ENTRY">>) => FGt(last.qty, FZero)

\* C5: after every averaging transition avg_price * total_qty is the sum of
\* price * qty over the fills of the position (up to float rounding),
\* total_qty is the sum of the fill quantities and level their number;
\* fills 5 @ 100 then 5 @ 110 give avg_price 105 and level 2.
C5_WeightedAverage ==
    \A s \in Symbols :
        (HasPos(positions, s) /\ Len(fills[s]) >= 2) =>
            LET pos == PosOf(positions, s)
            IN  /\ XNear(XMul(pos.avg_price, pos.total_qty), SumNotional(fills[s]))
                /\ XEq(pos.total_qty, SumQty(fills[s]))
                /\ pos.level = Len(fills[s])
                /\ fills[s] = ScenarioC =>
                       (pos.avg_price = FInt(105) /\ pos.level = 2)

C5_Witness ==
    \E s \in Symbols :
        /\ HasPos(positions, s)
        /\ fills[s] = ScenarioC
        /\ last.op = "average_short"
        /\ PosOf(positions, s).avg_price = FInt(105)
        /\ PosOf(positions, s).total_qty = FInt(10)

\* C6 (as stated): a position leaves the map exactly in a check whose price
\* meets the take-profit or the liquidation condition; the two conditions
\* never hold together; a removal credits one realised PnL; a check meeting
\* neither condition changes nothing.
C6_RemovedIffCondition ==
    \A s \in Symbols :
        LET was == HasPos(last.positions, s)
            now == HasPos(positions, s)
            pos == PosOf(last.positions, s)
            tp  == TakeProfitCondition(pos, last.price)
            liq == LiquidationCondition(pos, last.price)
        IN  /\ (was /\ ~now) <=> (Checked(s) /\ (tp \/ liq))
            /\ Checked(s) => ~(tp /\ liq)
            /\ (was /\ ~now) =>
                   \/ TakeProfitCredited(pos, last.price)
                   \/ LiquidationCredited(pos)
            /\ (Checked(s) /\ ~tp /\ ~liq) =>
                   (positions = last.positions /\ balance = last.balance)

\* C7: take-profit fires exactly when current_price <= avg_price * (1 -
\* tp_pct / 100); it then removes the position and adds total_qty *
\* (avg_price - current_price) to the balance.  With avg_price 100 and
\* total_qty 10 it fires exactly for current_price <= 97, and at 97 the
\* balance grows by 30.
C7_TakeProfit ==
    \A s \in Symbols :
        Checked(s) =>
            LET pos   == PosOf(last.positions, s)
                fired == last.logged = <<"TP CLOSE">>
            IN  /\ fired <=> TakeProfitCondition(pos, last.price)
                /\ fired =>
                       /\ ~HasPos(positions, s)
                       /\ TakeProfitCredited(pos, last.price)
                /\ (pos.avg_price = FInt(100) /\ pos.total_qty = FInt(10)) =>
                       /\ fired <=> FLe(last.price, FInt(97))
                       /\ last.price = FInt(97) =>
                              XEq(XSub(balance, last.balance), FInt(30))

C7_Witness ==
    \E s \in Symbols :
        /\ Checked(s)
        /\ PosOf(last.positions, s).avg_price = FInt(100)
        /\ PosOf(last.positions, s).total_qty = FInt(10)
        /\ last.price = FInt(97)
        /\ last.logged = <<"TP CLOSE">>
        /\ ~HasPos(positions, s)
        /\ balance = FInt(INITIAL_BALANCE + 30)

\* C8 (as stated): liquidation fires exactly when current_price >=
\* avg_price * (1 + 1 / leverage); it then removes the position and changes
\* the balance by -total_qty * avg_price / leverage.  With avg_price 100,
\* total_qty 10 and leverage 10 it fires exactly for current_price >= 110
\* with realised PnL -100.
C8_Liquidation ==
    \A s \in Symbols :
        Checked(s) =>
            LET pos   == PosOf(last.positions, s)
                fired == last.logged = <<"LIQUIDATION">>
            IN  /\ fired <=> LiquidationCondition(pos, last.price)
                /\ fired =>
                       /\ ~HasPos(positions, s)
                       /\ LiquidationCredited(pos)
                /\ (pos.avg_price = FInt(100) /\ pos.total_qty = FInt(10)) =>
                       /\ fired <=> FGe(last.price, FInt(110))
                       /\ fired => XEq(XSub(balance, last.balance), FInt(-100))

\* C9 (as stated): in every scan of the live loop every open short is
\* evaluated, also when MAX_OPEN_TRADES positions are open.  The evaluation
\* of a short finds or restores its averaging state, so after a scan every
\* short the exchange reported in it has one.
C9_EveryPositionEvaluated ==
    (pc = "top" /\ last.op \in {"live_tick", "live_sleep"}) =>
        \A i \in 1..Len(open_pos) :
            IsShort(open_pos[i]) => averaging_state[open_pos[i].symbol] # NoState

\* C10 (as stated): the pass over the existing positions precedes the entry
\* scan, so the monitoring pass of a cycle neither averages nor closes a
\* position that was opened in that cycle.
C10_ExistingBeforeEntries ==
    (last.op = "monitor" /\ ~HasPos(tick_start.positions, last.symbol)) =>
        /\ last.logged \in {<<>>, <<"SKIP">>}
        /\ positions = last.positions
        /\ balance = last.balance

\* the signal conditions over the real numbers the floats stand for, cleared
\* of fractions: growth (close[2] - close[0]) / close[0] >= PUMP_PERCENT / 100
\* with growth 0 for close[0] <= 0, and open-interest growth (curr - prev) /
\* prev >= 5 / 100 with growth 0 for a short history or prev <= 0
PumpCondition(candles) ==
    /\ Len(candles) >= 3
    /\ FGt(candles[1], FZero)
    /\ FGe(XMul(XSub(candles[3], candles[1]), FInt(100)),
           XMul(FInt(PUMP_PERCENT), candles[1]))
OiCondition(hist) ==
    /\ Len(hist) >= 2
    /\ FGt(hist[Len(hist) - 1], FZero)
    /\ FGe(XMul(XSub(hist[Len(hist)], hist[Len(hist) - 1]), FInt(100)),
           XMul(FInt(5), hist[Len(hist) - 1]))
SignalCondition(data) ==
    /\ \E tf \in 1..Len(data.kl) : PumpCondition(data.kl[tf])
    /\ OiCondition(data.hist)
\* the averaging trigger: a level is left and the price is at least
\* AVG_DROP_PERCENT percent above the average price
AveragingCondition(avg_price, level, price) ==
    /\ level < AVG_LEVELS
    /\ FGe(XMul(XSub(price, avg_price), FInt(100)),
           XMul(AVG_DROP_PERCENT, avg_price))
\* the step made no order, cancel or leverage call
NoExchangeCall(logged) ==
    \A i \in 1..Len(logged) :
        logged[i].fn \notin {"open_short_market", "place_take_profit_market",
                             "cancel_all_open_orders", "set_leverage"}

\* C11: a step of either loop whose market data crosses no threshold (no
\* pump with open-interest growth in a scan; no averaging trigger,
\* take-profit or liquidation for a held position) leaves the balance and
\* all positions, or the tracked live state, as they were and makes no
\* order, cancel or leverage call; so does a whole cycle of such steps.
C11_QuietStepChangesNothing ==
    /\ (last.op = "scan" /\ ~SignalCondition(last.data)) =>
           (positions = last.positions /\ balance = last.balance)
    /\ (last.op = "monitor" /\ HasPos(last.positions, last.symbol)) =>
           LET pos == PosOf(last.positions, last.symbol)
           IN  (/\ ~AveragingCondition(pos.avg_price, pos.level, last.price)
                /\ ~TakeProfitCondition(pos, last.price)
                /\ ~LiquidationCondition(pos, last.price)) =>
                   (positions = last.positions /\ balance = last.balance)
    /\ (last.op = "live_entry" /\ ~SignalCondition(last.data)) =>
           (averaging_state = last.state /\ NoExchangeCall(last.logged))
    /\ (last.op = "live_avg" /\ last.state[last.symbol] # NoState) =>
           LET state == last.state[last.symbol]
           IN  ~AveragingCondition(state.entry_price, state.level, last.price) =>
                   (averaging_state = last.state /\ NoExchangeCall(last.logged))

\* the monitoring pass looked at a held position at a price between its
\* thresholds and left the account as it was
C11_Witness ==
    /\ last.op = "monitor"
    /\ HasPos(last.positions, last.symbol)
    /\ PosOf(last.positions, last.symbol).avg_price = FInt(100)
    /\ PosOf(last.positions, last.symbol).level = 1
    /\ last.price = FInt(100)
    /\ positions = last.positions
    /\ balance = last.balance

\* the scan is over: the loop is back at its top
ScanOver == pc = "top" /\ last.op \in {"live_tick", "live_sleep"}
OrderCalls == {"open_short_market", "place_take_profit_market"}

\* C12 (as stated): after a scan in which the exchange reported a short for
\* a symbol without tracked state, the symbol has the state {reported entry
\* price, absolute reported amount, level 1}; no order was placed for the
\* symbol in that scan; the averaging pass gives no state to a position
\* reported with a non-negative amount.
C12_RecoveredAtLevelOne ==
    /\ ScanOver =>
           \A i \in 1..Len(open_pos) :
               LET p == open_pos[i]
               IN  (IsShort(p) /\ scan_start[p.symbol] = NoState) =>
                       /\ averaging_state[p.symbol] =
                              [entry_price |-> p.entryPrice,
                               total_qty   |-> XAbs(p.positionAmt),
                               level       |-> 1]
                       /\ \A k \in 1..Len(calls) :
                              calls[k].symbol = p.symbol =>
                                  calls[k].fn \notin OrderCalls
    /\ last.op = "live_avg" =>
           \A i \in 1..Len(open_pos) :
               (open_pos[i].symbol = last.symbol /\ ~IsShort(open_pos[i])) =>
                   averaging_state = last.state

\* a step of either loop that ran the signal search for its symbol
Searched == last.op \in {"scan", "live_entry"} /\ last.data # NoData
\* what a produced signal leads to: the paper loop opens the position unless
\* the price is missing, the live loop asks the exchange for the leverage
SignalActedOn ==
    IF last.op = "scan"
    THEN last.logged = <<"ENTRY">> \/ FLe(last.price, FZero)
    ELSE last.logged # <<>> /\ last.logged[1].fn = "set_leverage"

\* without a signal the iteration ends: nothing is opened, nothing is asked
SignalDropped ==
    /\ last.logged = <<>>
    /\ positions = last.positions
    /\ averaging_state = last.state

\* C13: a signal is produced for a symbol exactly when some timeframe has at
\* least 3 candles growing by PUMP_PERCENT per cent or more (inclusive, no
\* growth when the first close is not positive) and the open interest grew
\* by 5 per cent or more; the timeframe reported is the first such one in
\* configured order and no later timeframe is fetched; open interest is
\* fetched only after a pump was found; closes 100, 105, 108 qualify and the
\* open-interest history 1000, 1040 rejects the entry.
C13_SignalIffPumpAndOi ==
    Searched =>
        LET data == last.data
        IN  /\ data.signal <=> SignalCondition(data)
            /\ data.signal => SignalActedOn
            /\ ~data.signal => SignalDropped
            /\ data.tf # 0 =>
                   /\ Len(data.kl) = data.tf
                   /\ PumpCondition(data.kl[data.tf])
                   /\ \A tf \in 1..(data.tf - 1) : ~PumpCondition(data.kl[tf])
            /\ data.tf = 0 =>
                   /\ Len(data.kl) = Len(TIMEFRAMES)
                   /\ \A tf \in 1..Len(data.kl) : ~PumpCondition(data.kl[tf])
                   /\ data.hist = <<>>
            /\ data.kl[1] = <<FInt(100), FInt(105), FInt(108)>> => data.tf = 1
            /\ data.hist = <<FInt(1000), FInt(1040)>> =>
                   ~data.signal /\ positions = last.positions

\* C13 witness: the first two timeframes do not qualify, the third does, the
\* open interest grew by exactly 5 per cent, and the position is opened
C13_Witness ==
    /\ last.op = "scan"
    /\ last.data.tf = 3
    /\ last.data.hist = <<FInt(1000), FInt(1050)>>
    /\ last.data.signal
    /\ HasPos(positions, last.symbol)
    /\ ~HasPos(last.positions, last.symbol)

\* the take-profit placements of the last step of the live loop
TpCallsOfLast ==
    IF last.op \in {"live_avg", "live_entry"}
    THEN SelectSeq(last.logged, LAMBDA c : c.fn = "place_take_profit_market")
    ELSE <<>>
CancelledInLast ==
    /\ last.op = "live_avg"
    /\ \E i \in 1..Len(last.logged) : last.logged[i].fn = "cancel_all_open_orders"

\* C14 (as stated): an averaging step of the live loop that cancelled the
\* open orders and whose take-profit placement was then refused (the call
\* returned None) attempts the placement at least once more.
C14_TakeProfitRetried ==
    (CancelledInLast /\ TpCallsOfLast # <<>> /\ ~TpCallsOfLast[1].ok) =>
        Len(TpCallsOfLast) >= 2

StateChangingCalls ==
    {"open_short_market", "place_take_profit_market", "cancel_all_open_orders",
     "set_leverage"}

\* C15 (as stated): with REAL_ACCOUNT false no scan of the live loop makes a
\* state-changing exchange call: open_short_market, place_take_profit_market,
\* cancel_all_open_orders and set_leverage are never invoked.
C15_DryRunMakesNoCall ==
    ~REAL_ACCOUNT =>
        \A k \in 1..Len(calls) : calls[k].fn \notin StateChangingCalls

\* the last step fetched a current price for its symbol and got none
PriceMissing ==
    /\ FLe(last.price, FZero)
    /\ \/ last.op = "scan" /\ last.data.signal
       \/ last.op = "monitor"
       \/ /\ last.op = "live_avg"
          /\ last.state[last.symbol] # NoState
          /\ \E i \in 1..Len(open_pos) :
                 open_pos[i].symbol = last.symbol /\ IsShort(open_pos[i])
       \/ /\ last.op = "live_entry"
          /\ last.data.signal
          /\ last.logged # <<>>
          /\ last.logged[1].ok
\* the last step searched its symbol and got fewer than 3 candles everywhere
CandlesMissing ==
    /\ Searched
    /\ \A tf \in 1..Len(last.data.kl) : Len(last.data.kl[tf]) < 3
\* a timeframe with fewer than 3 candles was fetched by the last step
SomeCandlesMissing ==
    /\ Searched
    /\ \E tf \in 1..Len(last.data.kl) : Len(last.data.kl[tf]) < 3

\* C16: a step that gets no current price (price <= 0) or fewer than 3
\* candles on every timeframe changes no position, no tracked state and not
\* the balance, and the loop goes on with the next symbol; one timeframe
\* with fewer than 3 candles does not end the search over the timeframes.
C16_DataFailureSkipsOneCheck ==
    /\ [][(last' # last /\ (PriceMissing' \/ CandlesMissing')) =>
              /\ positions' = positions
              /\ balance' = balance
              /\ averaging_state' = averaging_state
              /\ todo' = Tail(todo)
              /\ pc' = pc]_vars
    /\ [](SomeCandlesMissing =>
              /\ last.data.tf # 0 => Len(last.data.kl[last.data.tf]) >= 3
              /\ last.data.tf = 0 =>
                     \A tf \in 1..Len(last.data.kl) :
                         ~PumpCondition(last.data.kl[tf]))

\* C16 witness: the monitoring pass gets no price for an open position and
\* goes on to the next open position
C16_Witness ==
    /\ last.op = "monitor"
    /\ FLe(last.price, FZero)
    /\ HasPos(positions, last.symbol)
    /\ positions = last.positions
    /\ pc = "monitor"
    /\ todo # <<>>

RECURSIVE Pow10(_)
Pow10(n) == IF n = 0 THEN 1 ELSE 10 * Pow10(n - 1)

\* qty is share * bal / price rounded to the symbol's decimals, over the
\* real numbers: |qty * price - share * bal| <= price / (2 * 10^decimals),
\* up to the rounding of the floating-point operations
Sized(qty, bal, share, price, symbol) ==
    FLe(XMul(FInt(2 * Pow10(get_qty_precision(symbol))),
             XAbs(XSub(XMul(qty, price), XMul(share, bal)))),
        XAdd(price, [price EXCEPT !.ex = price.ex - 40]))

Logged(kind) == \E i \in 1..Len(last.logged) : last.logged[i] = kind

\* C17: the balance of the paper account changes only in a step that closes
\* a position at take-profit or liquidation; a step that only opens or only
\* averages a position leaves it unchanged; the quantity of an entry and of
\* an averaging fill is sized from the whole balance, whatever is open.
C17_BalanceChangesOnlyOnClose ==
    /\ (last # NoCall /\ balance # last.balance) =>
           /\ last.op = "monitor"
           /\ Logged("TP CLOSE") \/ Logged("LIQUIDATION")
           /\ ~HasPos(positions, last.symbol)
    /\ last.logged \in {<<"ENTRY">>, <<"AVG">>} => balance = last.balance
    /\ (last.op = "scan" /\ Logged("ENTRY")) =>
           Sized(last.qty, last.balance, POSITION_SIZE, last.price, last.symbol)
    /\ (last.op = "monitor" /\ Logged("AVG")) =>
           Sized(last.qty, last.balance, XMul(POSITION_SIZE, AVG_MULTIPLIER),
                 last.price, last.symbol)

\* C17 witness: with two positions open a third is opened at price 1 with
\* quantity 0.5 = 0.05 * 10 / 1, and the balance is still the initial one
C17_Witness ==
    /\ last.op = "scan"
    /\ Logged("ENTRY")
    /\ Len(last.positions) >= 2
    /\ last.price = FInt(1)
    /\ last.qty = FDiv(FInt(1), FInt(2))
    /\ balance = FInt(INITIAL_BALANCE)

ReportedShort(symbol) ==
    \E i \in 1..Len(open_pos) :
        open_pos[i].symbol = symbol /\ IsShort(open_pos[i])

\* C18 (as stated): in the live loop a symbol has tracked state only while
\* the exchange reports an open short for it: after a scan in which the
\* exchange reported no short for a symbol that was tracked when the scan
\* began, the symbol has no tracked state, unless that scan entered it anew.
C18_StateRemovedWithPosition ==
    ScanOver =>
        \A s \in Symbols :
            (scan_start[s] # NoState /\ ~ReportedShort(s)) =>
                \/ averaging_state[s] = NoState
                \/ \E k \in 1..Len(calls) :
                       calls[k].fn = "open_short_market" /\ calls[k].symbol = s

\* C19 (as stated): with averaging switched off no averaging happens in the
\* live loop: no tracked state goes beyond level 1 and the averaging pass
\* sends no order.
C19_NoAveragingWhenDisabled ==
    ~use_averaging =>
        /\ \A s \in Symbols : averaging_state[s].level <= 1
        /\ last.op = "live_avg" => OrdersOfLast = <<>>

\* C20 (as stated): the averaging arithmetic never divides by zero: no step
\* of the paper loop ends in a ZeroDivisionError, every open position has an
\* average price > 0 when drop_pct is computed, and an averaging fill is
\* never applied to a total quantity of 0.
C20_NoDivisionByZero ==
    /\ pc # "crashed"
    /\ ~Logged("ZeroDivisionError")
    /\ \A i \in 1..Len(positions) : FGt(positions[i].avg_price, FZero)

====
